---- MODULE Spec2Model ----
(***************************************************************************)
(* Model of accountant.py: extraction of expense lines from bank-statement *)
(* PDFs (bersihkan_nominal, extract_transaksi_harian_jago,                 *)
(* pdfs_to_dataframe), the routine-expense filter                          *)
(* (filter_pengeluaran_rutin), the end-of-month forecast (prediksi_harian) *)
(* and the interactive session (start_chat).                               *)
(*                                                                         *)
(* Text is a sequence of one-character strings.  A monetary value parsed   *)
(* from text is the exact decimal [mant, exp] = mant / 10^exp.  In the     *)
(* statistical layers a row of the DataFrame is represented by its         *)
(* "Pengeluaran" value, an integer number of rupiah.                       *)
(***************************************************************************)
EXTENDS Integers, Sequences, FiniteSets, TLC

VARIABLES
    pc,         \* position of the running program
    folder,     \* os.listdir(folder_pdf): the files of the directory, in enumeration order
    pdf_files,  \* pdfs_to_dataframe: the names kept by the extension test
    k,          \* pdfs_to_dataframe: number of files of pdf_files already read
    all_data,   \* pdfs_to_dataframe: the non-empty per-document frames appended so far
    full_data,  \* pdfs_to_dataframe: the returned frame
    data,       \* the frame handed to prediksi_harian (start_chat's local `data`)
    data0,      \* history: the frame as pdfs_to_dataframe returned it to start_chat
    tanggal,    \* start_chat: the last text read at the date prompt
    hasil,      \* what the last call of prediksi_harian did (<<>> before any call)
    pesan,      \* start_chat: what the last loop iteration printed about the request
    nreq        \* history: number of forecast requests of the session

vars == <<pc, folder, pdf_files, k, all_data, full_data, data, data0, tanggal, hasil, pesan, nreq>>

-----------------------------------------------------------------------------
(* Bounds of the model *)

\* longest generated text line
MaxLineLen == 3
\* most files in a directory
MaxFiles == 2
\* longest generated transaction set handed to prediksi_harian
MaxTx == 3
\* longest generated transaction set of a session
MaxSessionTx == 2
\* most forecast requests followed in one session
MaxRequests == 2

-----------------------------------------------------------------------------
(* Text helpers *)

Digits == {"0", "1", "2", "3", "4", "5", "6", "7", "8", "9"}

DigitVal(c) ==
    CASE c = "0" -> 0 [] c = "1" -> 1 [] c = "2" -> 2 [] c = "3" -> 3 [] c = "4" -> 4
      [] c = "5" -> 5 [] c = "6" -> 6 [] c = "7" -> 7 [] c = "8" -> 8 [] c = "9" -> 9

\* str.replace(old, ""): every occurrence of a character removed
Remove(s, c) == SelectSeq(s, LAMBDA x : x # c)

\* str.replace(old, new) for single characters
Replace(s, old, new) == [i \in 1..Len(s) |-> IF s[i] = old THEN new ELSE s[i]]

\* the whitespace of the modelled alphabet
IsSpace(c) == c = " "

RECURSIVE LStrip(_)
LStrip(s) == IF s # <<>> /\ IsSpace(Head(s)) THEN LStrip(Tail(s)) ELSE s

RECURSIVE RStrip(_)
RStrip(s) ==
    IF s # <<>> /\ IsSpace(s[Len(s)]) THEN RStrip(SubSeq(s, 1, Len(s) - 1)) ELSE s

\* str.strip()
Strip(s) == RStrip(LStrip(s))

\* str.lower() on the letters the modelled file names use
LowerChar(c) ==
    CASE c = "P" -> "p" [] c = "D" -> "d" [] c = "F" -> "f" [] c = "B" -> "b"
      [] OTHER -> c

Lower(s) == [i \in 1..Len(s) |-> LowerChar(s[i])]

\* str.endswith(suffix)
EndsWith(s, suf) ==
    Len(s) >= Len(suf) /\ SubSeq(s, Len(s) - Len(suf) + 1, Len(s)) = suf

RECURSIVE Flatten(_)
Flatten(ss) == IF ss = <<>> THEN <<>> ELSE Head(ss) \o Flatten(Tail(ss))

RECURSIVE BoundedSeq(_, _)
BoundedSeq(S, n) ==
    IF n = 0 THEN {<<>>}
    ELSE LET shorter == BoundedSeq(S, n - 1)
         IN  shorter \cup {Append(s, x) : s \in {t \in shorter : Len(t) = n - 1}, x \in S}

-----------------------------------------------------------------------------
(* 1. bersihkan_nominal *)

\* digits of s read as a decimal natural number
RECURSIVE DecValue(_)
DecValue(s) ==
    IF s = <<>> THEN 0 ELSE 10 * DecValue(SubSeq(s, 1, Len(s) - 1)) + DigitVal(s[Len(s)])

RECURSIVE DropTrailingZeros(_)
DropTrailingZeros(s) ==
    IF s # <<>> /\ s[Len(s)] = "0" THEN DropTrailingZeros(SubSeq(s, 1, Len(s) - 1)) ELSE s

\* float(s) accepts, of the texts that reach it here, digits with at most one "."
\* and at least one digit
FloatOk(s) ==
    /\ \A i \in 1..Len(s) : s[i] \in Digits \cup {"."}
    /\ Cardinality({i \in 1..Len(s) : s[i] = "."}) <= 1
    /\ \E i \in 1..Len(s) : s[i] \in Digits

\* float(s) of an accepted text, as the decimal mant / 10^exp
FloatOf(s) ==
    LET dots == {i \in 1..Len(s) : s[i] = "."}
        dot  == IF dots = {} THEN Len(s) + 1 ELSE CHOOSE i \in dots : TRUE
        ip   == SubSeq(s, 1, dot - 1)
        fp   == DropTrailingZeros(SubSeq(s, dot + 1, Len(s)))
    IN  [mant |-> DecValue(ip \o fp), exp |-> Len(fp)]

Zero == [mant |-> 0, exp |-> 0]

bersihkan_nominal(nominal) ==
    LET a == Remove(Remove(Remove(nominal, "+"), "-"), " ")
        b == Replace(Remove(a, "."), ",", ".")
    IN  IF FloatOk(b) THEN FloatOf(b) ELSE Zero

\* nominal > 0
Positive(v) == v.mant > 0

-----------------------------------------------------------------------------
(* 2. extract_transaksi_harian_jago *)

\* the character class [0-9\.\,]
NumChar(c) == c \in Digits \cup {".", ","}

\* last index of the run of NumChar characters that starts at j
RECURSIVE RunEnd(_, _)
RunEnd(line, j) ==
    IF j + 1 <= Len(line) /\ NumChar(line[j + 1]) THEN RunEnd(line, j + 1) ELSE j

\* where a match of -\s?[0-9\.\,]+ that starts at i ends; 0 when none starts there
MatchAt(line, i) ==
    IF line[i] # "-" THEN 0
    ELSE IF i + 2 <= Len(line) /\ IsSpace(line[i + 1]) /\ NumChar(line[i + 2])
         THEN RunEnd(line, i + 2)
    ELSE IF i + 1 <= Len(line) /\ NumChar(line[i + 1])
         THEN RunEnd(line, i + 1)
    ELSE 0

\* re.findall(r"-\s?[0-9\.\,]+", line) from position i on: the non-overlapping
\* matches, left to right
RECURSIVE FindAllFrom(_, _)
FindAllFrom(line, i) ==
    IF i > Len(line) THEN <<>>
    ELSE LET e == MatchAt(line, i)
         IN  IF e > 0 THEN <<SubSeq(line, i, e)>> \o FindAllFrom(line, e + 1)
             ELSE FindAllFrom(line, i + 1)

FindAll(line) == FindAllFrom(line, 1)

\* the nominal > 0 test that guards data.append
MutEmitAlways(nominal) == TRUE

Emits(nominal) == Positive(nominal)

\* the rows one text line appends to `data`: none or one
ParseLine(line) ==
    LET match == FindAll(line)
    IN  IF match = <<>> THEN <<>>
        ELSE LET nominal == bersihkan_nominal(match[Len(match)])
             IN  IF Emits(nominal)
                 THEN <<[Deskripsi |-> Strip(line), Pengeluaran |-> nominal]>>
                 ELSE <<>>

RECURSIVE ParseLines(_)
ParseLines(lines) ==
    IF lines = <<>> THEN <<>> ELSE ParseLine(Head(lines)) \o ParseLines(Tail(lines))

\* pdf.pages[2:]
PagesFromThird(pages) == SubSeq(pages, 3, Len(pages))

\* a page is the list of its text lines; a page without text is the empty list
RECURSIVE ParsePages(_)
ParsePages(pages) ==
    IF pages = <<>> THEN <<>> ELSE ParseLines(Head(pages)) \o ParsePages(Tail(pages))

\* the call's outcome: the exception of pdfplumber.open left uncaught, or the frame
extract_transaksi_harian_jago(doc) ==
    IF ~doc.openable THEN [raised |-> TRUE, df |-> <<>>]
    ELSE [raised |-> FALSE, df |-> ParsePages(PagesFromThird(doc.pages))]

-----------------------------------------------------------------------------
(* Directories the batch is run on *)

L_kopi  == <<"k", "o", "p", "i", " ", "-", "2", "1", ".", "5", "0", "0">>
L_saldo == <<"s", "a", "l", "d", "o", " ", "1", ".", "0", "0", "0">>
L_nol   == <<"b", "i", "a", "y", "a", " ", "-", "0">>
L_dua   == <<"t", "f", " ", "-", "1", ".", "0", "0", "0", " ", "-", "7", ".", "5", "0", "0">>
L_koma  == <<"-", "2", "1", ",", "5", "0", "0">>
L_cacat == <<"x", " ", "-", "1", ".", "2", ",", "3", ",", "4">>
L_spasi == <<" ", "p", "a", "r", "k", "i", "r", " ", "-", " ", "2", ".", "0", "0", "0", " ">>
L_jajan == <<"j", "a", "j", "a", "n", " ", "-", "5", ".", "0", "0", "0">>

\* a file that pdfplumber cannot open
Rusak == [openable |-> FALSE, pages |-> <<>>]

\* expense lines on the two leading pages only, none that parses on the third
Kosong == [openable |-> TRUE, pages |-> <<<<L_kopi>>, <<L_dua>>, <<L_saldo, L_nol, L_cacat>>>>]

\* three transactions, on pages three and five
Tiga == [openable |-> TRUE,
         pages |-> <<<<L_kopi>>, <<>>, <<L_kopi, L_saldo, L_dua>>, <<>>, <<L_spasi>>>>]

\* two transactions
Dua == [openable |-> TRUE, pages |-> <<<<>>, <<>>, <<L_koma, L_jajan>>>>]

Alphabet == {"-", " ", "0", "5", ".", ",", "x"}

GenLines == BoundedSeq(Alphabet, MaxLineLen)

DocOfLine(l) == [openable |-> TRUE, pages |-> <<<<>>, <<>>, <<l, L_jajan>>>>]

N_a == <<"a", ".", "p", "d", "f">>
N_B == <<"B", ".", "P", "D", "F">>
N_c == <<"c", ".", "t", "x", "t">>
N_g == <<"g", ".", "p", "d", "f">>

Files == [name : {N_a, N_B, N_c}, doc : {Rusak, Kosong, Tiga, Dua}]

Folders ==
    {f \in BoundedSeq(Files, MaxFiles) :
        \A i, j \in 1..Len(f) : i # j => f[i].name # f[j].name}
    \cup {<<[name |-> N_g, doc |-> DocOfLine(l)]>> : l \in GenLines}

\* the document os.path.join(folder_pdf, name) names
DocAt(f, name) == (CHOOSE x \in {f[i] : i \in 1..Len(f)} : x.name = name).doc

-----------------------------------------------------------------------------
(* 3. pdfs_to_dataframe *)

Ext == <<".", "p", "d", "f">>

\* f.lower().endswith(".pdf")
IsPdf(name) == EndsWith(Lower(name), Ext)

\* full_data[full_data["Pengeluaran"] > 0]
KeepPositive(rows) == SelectSeq(rows, LAMBDA r : Positive(r.Pengeluaran))

\* the state of the variables the batch does not use
SessionIdle ==
    /\ data = <<>> /\ data0 = <<>> /\ tanggal = "" /\ hasil = <<>>
    /\ pesan = "" /\ nreq = 0

InitBatch ==
    /\ pc = "listdir"
    /\ folder \in Folders
    /\ pdf_files = <<>> /\ k = 0 /\ all_data = <<>> /\ full_data = <<>>
    /\ SessionIdle

\* lines 62-66: list the directory, keep the PDF names, return empty when there are none
ListDir ==
    /\ pc = "listdir"
    /\ pdf_files' = SelectSeq([i \in 1..Len(folder) |-> folder[i].name], IsPdf)
    /\ pc' = IF pdf_files' = <<>> THEN "returned" ELSE "loop"
    /\ UNCHANGED <<folder, k, all_data, full_data, data, data0, tanggal, hasil, pesan, nreq>>

\* what the loop body does with the frame of one document (lines 72-75)
AppendIfNotEmpty(acc, df) == IF df # <<>> THEN Append(acc, df) ELSE acc

\* lines 68-75: one iteration of the loop over pdf_files
ReadPdf ==
    /\ pc = "loop" /\ k < Len(pdf_files)
    /\ LET r == extract_transaksi_harian_jago(DocAt(folder, pdf_files[k + 1]))
       IN  IF r.raised
           THEN /\ pc' = "raised"
                /\ UNCHANGED <<k, all_data>>
           ELSE /\ all_data' = AppendIfNotEmpty(all_data, r.df)
                /\ k' = k + 1
                /\ pc' = pc
    /\ UNCHANGED <<folder, pdf_files, full_data, data, data0, tanggal, hasil, pesan, nreq>>

\* pd.concat(all_data, ignore_index=True)
MutConcatReversed(frames) ==
    IF frames = <<>> THEN <<>> ELSE Flatten([i \in 1..Len(frames) |-> frames[Len(frames) + 1 - i]])

Concat(frames) == Flatten(frames)

\* lines 77-87: after the loop, concatenate, keep the positive rows and return
Finish ==
    /\ pc = "loop" /\ k = Len(pdf_files)
    /\ full_data' = IF all_data = <<>> THEN <<>> ELSE KeepPositive(Concat(all_data))
    /\ pc' = "returned"
    /\ UNCHANGED <<folder, pdf_files, k, all_data, data, data0, tanggal, hasil, pesan, nreq>>

NextBatch == ListDir \/ ReadPdf \/ Finish

SpecBatch == InitBatch /\ [][NextBatch]_vars

-----------------------------------------------------------------------------
(* Properties of the batch *)

\* the rows of a frame, as a set
RowSet(rows) == {rows[j] : j \in 1..Len(rows)}

\* C1: a document that cannot be opened is reported and skipped: the exception never
\* leaves pdfs_to_dataframe, and the frame it returns holds the transactions of every
\* readable PDF of the directory.
C1_UnreadableDocumentSkipped ==
    /\ pc # "raised"
    /\ pc = "returned" =>
          \A i \in 1..Len(folder) :
             (IsPdf(folder[i].name) /\ folder[i].doc.openable) =>
                RowSet(ParsePages(PagesFromThird(folder[i].doc.pages))) \subseteq RowSet(full_data)

\* C3: every transaction the parser appends and every row of the frame that
\* pdfs_to_dataframe returns has an amount greater than zero.
C3_AmountsPositive ==
    /\ \A i \in 1..Len(all_data) : \A j \in 1..Len(all_data[i]) :
          all_data[i][j].Pengeluaran.mant > 0
    /\ \A n \in 1..Len(full_data) : full_data[n].Pengeluaran.mant > 0

\* a batch has returned one row from a document whose other line normalizes to 0.0
C3_Witness ==
    /\ pc = "returned"
    /\ Len(folder) = 1 /\ folder[1].doc = DocOfLine(<<"-", "0">>)
    /\ Len(full_data) = 1 /\ full_data[1].Pengeluaran = [mant |-> 5000, exp |-> 0]

\* a name that ends in ".pdf" in any letter case
C6_PdfName(n) ==
    /\ Len(n) >= 4
    /\ n[Len(n) - 3] = "."
    /\ n[Len(n) - 2] \in {"p", "P"}
    /\ n[Len(n) - 1] \in {"d", "D"}
    /\ n[Len(n)] \in {"f", "F"}

\* the transactions of the PDFs of a listing, document by document, line by line
RECURSIVE C6_Expected(_)
C6_Expected(f) ==
    IF f = <<>> THEN <<>>
    ELSE (IF C6_PdfName(Head(f).name)
          THEN ParsePages(PagesFromThird(Head(f).doc.pages))
          ELSE <<>>) \o C6_Expected(Tail(f))

-----------------------------------------------------------------------------
(* 4. filter_pengeluaran_rutin *)

Min(a, b) == IF a <= b THEN a ELSE b

Max(a, b) == IF a >= b THEN a ELSE b

RECURSIVE Insert(_, _)
Insert(x, s) ==
    IF s = <<>> THEN <<x>>
    ELSE IF x <= Head(s) THEN <<x>> \o s
    ELSE <<Head(s)>> \o Insert(x, Tail(s))

RECURSIVE Sorted(_)
Sorted(s) == IF s = <<>> THEN <<>> ELSE Insert(Head(s), Sorted(Tail(s)))

\* Series.quantile(num/den) with linear interpolation, times den (exact, in
\* integers); NaN on an empty series
Quantile(s, num, den) ==
    IF s = <<>> THEN [nan |-> TRUE, v |-> 0]
    ELSE LET a == Sorted(s)
             h == (Len(s) - 1) * num
             i == h \div den
             r == h % den
         IN  [nan |-> FALSE,
              v   |-> den * a[i + 1] + (IF r = 0 THEN 0 ELSE r * (a[i + 2] - a[i + 1]))]

\* line 130
cap_maksimum == 100000

\* line 134: the floor of the lower bound
batas_bawah_min == 5000

\* lines 126-131: batas_atas = min(Q3 + 1.5 * IQR, cap_maksimum), times 8
MutBatasAtasNoCap(d) ==
    2 * Quantile(d, 3, 4).v + 3 * (Quantile(d, 3, 4).v - Quantile(d, 1, 4).v)

BatasAtas8(d) ==
    LET Q1 == Quantile(d, 1, 4).v
        Q3 == Quantile(d, 3, 4).v
        IQR == Q3 - Q1
    IN  Min(2 * Q3 + 3 * IQR, 8 * cap_maksimum)

\* line 134: batas_bawah = max(Q1 * 0.5, 5_000), times 8
MutBatasBawahNoFloor(d) == Quantile(d, 1, 4).v

BatasBawah8(d) == Max(Quantile(d, 1, 4).v, 8 * batas_bawah_min)

\* lines 137-140: the rows inside [batas_bawah, batas_atas], as a new frame
Filter1(d) ==
    LET lo == BatasBawah8(d)
        hi == BatasAtas8(d)
    IN  SelectSeq(d, LAMBDA x : 8 * x >= lo /\ 8 * x <= hi)

\* x >= q and x <= q for a quantile q given times den; False against NaN
GeQ(x, q, den) == ~q.nan /\ den * x >= q.v

LeQ(x, q, den) == ~q.nan /\ den * x <= q.v

\* lines 145-150: the rows of the first stage inside [p20, p80]
Filter2(f) ==
    LET p20 == Quantile(f, 1, 5)
        p80 == Quantile(f, 4, 5)
    IN  SelectSeq(f, LAMBDA x : GeQ(x, p20, 5) /\ LeQ(x, p80, 5))

filter_pengeluaran_rutin(d) == IF d = <<>> THEN d ELSE Filter2(Filter1(d))

\* the caller's frame after the call: data[mask].copy() and the second selection
\* build new frames, the argument keeps its rows
MutFilterInPlace(d) == filter_pengeluaran_rutin(d)

ArgAfterFilter(d) == d

-----------------------------------------------------------------------------
(* 6. prediksi_harian *)

\* the texts entered at the date prompt that are no quit word
DateTexts == {"2025-10-25", "2025-10-29", "2025-10-30", "31-10-2025", "", "besok", " keluar"}

\* lines 190-205 on those texts: pd.to_datetime / datetime.strptime of the stripped
\* text; ok is FALSE when every attempt raises, nat is TRUE for pandas' NaT
ToDatetime(t) ==
    CASE t = "2025-10-25" -> [ok |-> TRUE, nat |-> FALSE, day |-> 25]
      [] t = "2025-10-29" -> [ok |-> TRUE, nat |-> FALSE, day |-> 29]
      [] t = "2025-10-30" -> [ok |-> TRUE, nat |-> FALSE, day |-> 30]
      [] t = "31-10-2025" -> [ok |-> TRUE, nat |-> FALSE, day |-> 31]
      [] t = ""           -> [ok |-> TRUE, nat |-> TRUE, day |-> 0]
      [] OTHER            -> [ok |-> FALSE, nat |-> FALSE, day |-> 0]

\* line 207
hari_bulan == 30

\* line 211: sisa_hari <= 0
MutPeriodOverStrict(sisa_hari) == sisa_hari < 0

PeriodOver(sisa_hari) == sisa_hari <= 0

\* line 236: data_rutin.empty
MutNeverEmpty(df) == FALSE

IsEmpty(df) == df = <<>>

\* medians m for which the double product m * 1.15 lies just below the half-way
\* point k500 instead of on it (50000 * 1.15 = 57499.99999999999,
\* 90000 * 1.15 = 103499.99999999999), given as 2 * m
ProductBelowTie == {100000, 180000}

\* lines 243-251: int(round(median * 1.15, -3)), the median given times 2;
\* round() rounds a half-way case to the even thousand
MutEstimasiTruncate(med2) == ((med2 * 115) \div 200000) * 1000

Estimasi(med2) ==
    LET x == med2 * 115
        q == x \div 200000
        r == x % 200000
    IN  IF r < 100000 THEN q * 1000
        ELSE IF r > 100000 THEN (q + 1) * 1000
        ELSE IF med2 \in ProductBelowTie \/ q % 2 = 0 THEN q * 1000
        ELSE (q + 1) * 1000

\* lines 277-307: the recommendation printed for the projected final balance
Kategori(akhir) ==
    IF akhir < 0 THEN "defisit"
    ELSE IF akhir < 100000 THEN "tipis"
    ELSE IF akhir < 300000 THEN "cukup"
    ELSE "aman"

\* lines 313-320: the balances and the days of the simulation, entries i..n
RECURSIVE Simulasi(_, _, _, _)
Simulasi(saldo, est, i, n) ==
    IF i > n THEN <<>> ELSE <<saldo - est>> \o Simulasi(saldo - est, est, i + 1, n)

TanggalList(hari_sekarang, sisa_hari) ==
    <<hari_sekarang>> \o [i \in 1..sisa_hari |-> hari_sekarang + i]

\* a call that ends before the report: nothing but the message is produced
Gagal(saldo, t, d, why, ran, rutin) ==
    [saldo |-> saldo, tanggal |-> t, outcome |-> why, raised |-> "",
     filtered |-> ran, rutin |-> rutin,
     data_asli |-> IF ran THEN ArgAfterFilter(d) ELSE d,
     sisa_hari |-> <<>>, estimasi |-> <<>>, saldo_akhir |-> <<>>, kategori |-> "",
     laporan |-> FALSE, saldo_harian |-> <<>>, tanggal_list |-> <<>>, grafik |-> FALSE]

\* what one call prediksi_harian(saldo_saat_ini, tanggal_input, data_asli) does
prediksi_harian(saldo, t, d) ==
    LET dt == ToDatetime(t)
        sisa_hari == hari_bulan - dt.day
        data_rutin == filter_pengeluaran_rutin(d)
    IN  IF ~dt.ok THEN Gagal(saldo, t, d, "DateUnparseable", FALSE, <<>>)
        ELSE IF ~dt.nat /\ PeriodOver(sisa_hari)
             THEN Gagal(saldo, t, d, "PeriodExhausted", FALSE, <<>>)
        ELSE IF IsEmpty(data_rutin)
             THEN Gagal(saldo, t, d, "InsufficientData", TRUE, data_rutin)
        ELSE IF data_rutin = <<>>
             \* line 251: round() of the NaN median of an empty frame
             THEN [Gagal(saldo, t, d, "Exception", TRUE, data_rutin)
                      EXCEPT !.raised = "ValueError"]
        ELSE LET est == Estimasi(Quantile(data_rutin, 1, 2).v)
                 akhir == saldo - est * sisa_hari
             IN  IF dt.nat
                 \* NaT.day is NaN: the comparison of line 211 is False, the report
                 \* prints NaN figures and range() of line 317 raises TypeError
                 THEN [Gagal(saldo, t, d, "Exception", TRUE, data_rutin)
                          EXCEPT !.raised = "TypeError", !.estimasi = <<est>>,
                                 !.kategori = "aman", !.laporan = TRUE]
                 ELSE [saldo |-> saldo, tanggal |-> t, outcome |-> "ok", raised |-> "",
                       filtered |-> TRUE, rutin |-> data_rutin,
                       data_asli |-> ArgAfterFilter(d),
                       sisa_hari |-> <<sisa_hari>>, estimasi |-> <<est>>,
                       saldo_akhir |-> <<akhir>>, kategori |-> Kategori(akhir),
                       laporan |-> TRUE,
                       saldo_harian |-> <<saldo>> \o Simulasi(saldo, est, 1, sisa_hari),
                       tanggal_list |-> TanggalList(dt.day, sisa_hari),
                       grafik |-> TRUE]

-----------------------------------------------------------------------------
(* prediksi_harian called on its own *)

Amounts == {4000, 9000, 10000, 11000, 12000, 15000, 5000000}

\* the amounts of the spec's end-to-end example
Contoh == <<10000, 12000, 11000, 15000, 9000>>

DataSets == BoundedSeq(Amounts, MaxTx) \cup {Contoh}

Saldos == {-50000, 0, 100000, 400000}

BatchIdle ==
    /\ folder = <<>> /\ pdf_files = <<>> /\ k = 0 /\ all_data = <<>> /\ full_data = <<>>

InitForecast ==
    /\ pc = "call"
    /\ data \in DataSets
    /\ data0 = data
    /\ tanggal = "" /\ hasil = <<>> /\ pesan = "" /\ nreq = 0
    /\ BatchIdle

\* one call of prediksi_harian on the frame
CallPrediksi ==
    /\ pc = "call"
    /\ \E saldo \in Saldos, t \in DateTexts :
          LET r == prediksi_harian(saldo, t, data)
          IN  /\ hasil' = <<r>>
              /\ data' = r.data_asli
    /\ pc' = "returned"
    /\ UNCHANGED <<folder, pdf_files, k, all_data, full_data, data0, tanggal, pesan, nreq>>

NextForecast == CallPrediksi

SpecForecast == InitForecast /\ [][NextForecast]_vars

-----------------------------------------------------------------------------
(* 7. start_chat *)

\* the frames pdfs_to_dataframe hands to a session: positive amounts
SessionSets == BoundedSeq(Amounts, MaxSessionTx) \cup {Contoh}

\* what is typed at the date prompt
PromptTexts == DateTexts \cup {"keluar", "exit", "quit", "KELUAR"}

\* str.lower() on the texts of PromptTexts
TextLower(t) ==
    CASE t = "KELUAR" -> "keluar"
      [] OTHER        -> t

\* line 402
IsQuit(t) == TextLower(t) \in {"keluar", "exit", "quit"}

\* what is typed at the balance prompt
SaldoTexts == {"Rp 100.000", "-50000", "abc"}

\* line 409: float(saldo.replace(".", "").replace(",", "").replace("Rp", "").strip())
\* on the texts of SaldoTexts; ok is FALSE when float() raises ValueError
ParseSaldo(s) ==
    CASE s = "Rp 100.000" -> [ok |-> TRUE, v |-> 100000]
      [] s = "-50000"     -> [ok |-> TRUE, v |-> -50000]
      [] OTHER            -> [ok |-> FALSE, v |-> 0]

\* lines 411-415: the exceptions the two handlers of the loop body catch
MutCaughtValueErrorOnly(e) == e = "ValueError"

Caught(e) == e = "ValueError" \/ e \in {"ValueError", "TypeError", "OverflowError"}

\* what the iteration prints about a call of prediksi_harian
Pesan(r) ==
    CASE r.raised = "ValueError"          -> "input saldo tidak valid"
      [] r.raised \notin {"", "ValueError"} -> "terjadi kesalahan"
      [] r.outcome = "DateUnparseable"    -> "format tanggal tidak dikenali"
      [] r.outcome = "PeriodExhausted"    -> "tanggal sudah melewati akhir bulan"
      [] r.outcome = "InsufficientData"   -> "tidak ada data pengeluaran rutin"
      [] OTHER                            -> "grafik disimpan"

InitChat ==
    /\ pc = "start_chat"
    /\ data0 \in SessionSets
    /\ data = <<>>
    /\ tanggal = "" /\ hasil = <<>> /\ pesan = "" /\ nreq = 0
    /\ BatchIdle

\* lines 385-397: take the frame of pdfs_to_dataframe, return when it is empty
StartChat ==
    /\ pc = "start_chat"
    /\ data' = data0
    /\ pc' = IF data0 = <<>> THEN "ended" ELSE "prompt"
    /\ pesan' = IF data0 = <<>> THEN "tidak ada data transaksi" ELSE ""
    /\ UNCHANGED <<folder, pdf_files, k, all_data, full_data, data0, tanggal, hasil, nreq>>

\* lines 400-405: a quit word at the date prompt ends the loop
Keluar ==
    /\ pc = "prompt"
    /\ \E t \in PromptTexts :
          /\ IsQuit(t)
          /\ tanggal' = t
    /\ pesan' = "terima kasih"
    /\ pc' = "ended"
    /\ UNCHANGED <<folder, pdf_files, k, all_data, full_data, data, data0, hasil, nreq>>

\* lines 400-415: one iteration of the loop for a date text that is no quit word
Permintaan ==
    /\ pc = "prompt" /\ nreq < MaxRequests
    /\ \E t \in PromptTexts, s \in SaldoTexts :
          /\ ~IsQuit(t)
          /\ tanggal' = t
          /\ IF ~ParseSaldo(s).ok
             THEN /\ hasil' = <<>>
                  /\ pesan' = "input saldo tidak valid"
                  /\ pc' = "prompt"
                  /\ data' = data
             ELSE LET r == prediksi_harian(ParseSaldo(s).v, t, data)
                  IN  /\ hasil' = <<r>>
                      /\ data' = r.data_asli
                      /\ IF r.raised = "" \/ Caught(r.raised)
                         THEN pc' = "prompt" /\ pesan' = Pesan(r)
                         ELSE pc' = "raised" /\ pesan' = ""
    /\ nreq' = nreq + 1
    /\ UNCHANGED <<folder, pdf_files, k, all_data, full_data, data0>>

NextChat == StartChat \/ Keluar \/ Permintaan

SpecChat == InitChat /\ [][NextChat]_vars

-----------------------------------------------------------------------------
(* Properties of the filter and the forecast *)

\* the last call of prediksi_harian
Called == Len(hasil) = 1

\* the call produced no estimate, final balance, trajectory, report or chart
NothingProduced(r) ==
    /\ r.estimasi = <<>> /\ r.saldo_akhir = <<>> /\ r.sisa_hari = <<>>
    /\ r.saldo_harian = <<>> /\ r.tanggal_list = <<>>
    /\ ~r.laporan /\ ~r.grafik

\* 32 * min(Q3 + 1.5 * IQR, 100000) and 32 * max(Q1 * 0.5, 5000) of a frame
\* (Quantile(d, n, 4).v is 4 times the quartile)
C4_Upper32(d) ==
    LET hi == 8 * Quantile(d, 3, 4).v + 12 * (Quantile(d, 3, 4).v - Quantile(d, 1, 4).v)
    IN  IF hi <= 32 * 100000 THEN hi ELSE 32 * 100000

C4_Lower32(d) ==
    IF 4 * Quantile(d, 1, 4).v >= 32 * 5000 THEN 4 * Quantile(d, 1, 4).v ELSE 32 * 5000

\* the rows of d inside the band of d
C4_Stage1(d) == SelectSeq(d, LAMBDA x : 32 * x >= C4_Lower32(d) /\ 32 * x <= C4_Upper32(d))

\* C4: every amount the filter returns for a non-empty frame lies inside
\* [max(Q1/2, 5000), min(Q3 + 1.5 IQR, 100000)] of the frame and inside the
\* 20th..80th percentile of the rows inside that band; so it lies in [5000, 100000].
C4_RoutineInsideBand ==
    (Called /\ hasil[1].filtered /\ data0 # <<>>) =>
        \A n \in 1..Len(hasil[1].rutin) :
            LET a == hasil[1].rutin[n]
            IN  /\ 32 * a >= C4_Lower32(data0) /\ 32 * a <= C4_Upper32(data0)
                /\ 5 * a >= Quantile(C4_Stage1(data0), 1, 5).v
                /\ 5 * a <= Quantile(C4_Stage1(data0), 4, 5).v
                /\ a >= 5000 /\ a <= 100000

\* a frame with an amount under the floor, 5000000 and ordinary amounts, of which
\* the filter kept some
C4_Witness ==
    /\ Called /\ hasil[1].filtered
    /\ data0 = <<4000, 10000, 5000000>>
    /\ hasil[1].rutin = <<10000>>

\* C5: remaining_days is 30 - day of month; from day 30 on the call ends with
\* PeriodExhausted before the filter runs and produces nothing.
C5_PeriodExhausted ==
    Called =>
        /\ hasil[1].tanggal \in {"2025-10-30", "31-10-2025"} =>
              /\ hasil[1].outcome = "PeriodExhausted"
              /\ ~hasil[1].filtered
              /\ NothingProduced(hasil[1])
        /\ (hasil[1].tanggal = "2025-10-25" /\ hasil[1].outcome = "ok") =>
              hasil[1].sisa_hari = <<5>>
        /\ (hasil[1].tanggal = "2025-10-29" /\ hasil[1].outcome = "ok") =>
              hasil[1].sisa_hari = <<1>>

\* a call on day 30 with a frame that has routine rows ended with PeriodExhausted
C5_Witness ==
    /\ Called /\ hasil[1].tanggal = "2025-10-30" /\ data0 = Contoh
    /\ hasil[1].outcome = "PeriodExhausted"

\* the day of month of the dates that name one
C8_Day(t) == IF t = "2025-10-25" THEN 25 ELSE 29

C9_EmptyRoutineSet ==
    (Called /\ hasil[1].filtered) =>
        /\ data0 = <<>> => hasil[1].rutin = <<>>
        /\ C4_Stage1(data0) = <<>> => hasil[1].rutin = <<>>
        /\ hasil[1].rutin = <<>> =>
              /\ hasil[1].outcome = "InsufficientData"
              /\ hasil[1].raised = ""
              /\ NothingProduced(hasil[1])

\* a non-empty frame whose only row lies above the cap: the first stage is empty
C9_Witness ==
    /\ Called /\ hasil[1].filtered
    /\ data0 = <<5000000>>
    /\ hasil[1].outcome = "InsufficientData"

-----------------------------------------------------------------------------
(* Properties of the session *)

\* C2: a request that fails never ends the session: the loop prints what went
\* wrong and prompts again; only a quit word at the date prompt ends the session.
C2_FailedRequestKeepsSession ==
    [][pc = "prompt" =>
          \/ /\ pc' = "prompt"
             /\ pesan' # ""
             /\ (hasil' = <<>> \/ hasil'[1].outcome # "ok") => pesan' # "grafik disimpan"
          \/ /\ pc' = "ended"
             /\ tanggal' \in {"keluar", "exit", "quit", "KELUAR"}]_vars

\* the session is at the prompt again after prediksi_harian raised TypeError
C2_Witness ==
    /\ pc = "prompt" /\ nreq = 2
    /\ Called /\ hasil[1].raised = "TypeError"
    /\ pesan = "terjadi kesalahan"

\* C7: forecast requests leave the session's frame as pdfs_to_dataframe returned
\* it, so what a request yields depends on its balance and date alone, not on the
\* requests before it.
C7_SessionDataUnchanged ==
    pc \in {"prompt", "ended", "raised"} =>
        /\ data = data0
        /\ Called => hasil[1] = prediksi_harian(hasil[1].saldo, hasil[1].tanggal, data0)

\* a second successful request of a session whose frame the filter narrows
C7_Witness ==
    /\ pc = "prompt" /\ nreq = 2
    /\ data0 = <<4000, 10000>>
    /\ Called /\ hasil[1].outcome = "ok" /\ hasil[1].rutin = <<10000>>

====
